---- MODULE Spec2Model ----
(***************************************************************************)
(* Invoice issuance (hash chain, signature) and PEPPOL transmission of the *)
(* Beam e-invoicing backend: main.py request handlers, crypto_utils.py,    *)
(* ubl_xml_generator.py and peppol_provider.py.                            *)
(*                                                                         *)
(* Strings are sequences of integer tokens.  A non-negative token is a     *)
(* digit or a formatted value, a negative token is a separator or a tag.   *)
(* The null value (Python None) of a string column is the empty sequence,  *)
(* of a timestamp column 0, of a status column the string "None".          *)
(***************************************************************************)
EXTENDS Integers, Sequences, FiniteSets, TLC

\* ---------------------------------------------------------------- bounds
MaxInvoices == 2        \* invoices created in a run of Spec
MaxRequests == 5        \* requests received in a run of Spec
MaxClock == 2           \* values of the clock
MaxChainInvoices == 3   \* invoices created in a run of SpecChain
MaxChainRequests == 6   \* requests received in a run of SpecChain
MaxNow == 3             \* values of the clock at a start of the service
TicksPerDay == 2        \* ticks of the clock in one day
MaxKeys == 2            \* key pairs
MaxSalt == 2            \* random salts of a signature
MaxDocs == 2            \* documents and chain hashes to sign
MaxQuantity == 150      \* quantity of a line, in hundredths
MaxUnitPrice == 30      \* unit price of a line, in cents
MaxLines == 2           \* lines of an invoice to aggregate
MaxHead == 7            \* digits before a space inside a TRN

\* ------------------------------------------------------------- constants
Issuers == {1, 2}
Procs == {1, 2}

None == <<>>
PIPE == -1
NONE_STR == <<-2>>
XML_DECL == -3
SHA256 == -4
SIG == -5
TAG_ID == -10
TAG_ISSUE_DATE == -11
TAG_ENDPOINT == -12
TAG_COMPANY_ID == -13
TAG_TAX_AMOUNT == -14
TAG_TAXABLE == -15
TAG_PAYABLE == -16
TAG_LINE == -17
TAG_PARTY == -18
TAG_BILLING_REF == -19

\* company.trn of each issuer (15 digits) and the TRN of the B2B customer
CompanyTrn(c) == <<1, 0, 0, 0, 0, 0, 0, 0, 0, 0, 0, 0, 0, 0, c>>
CustomerTrn == <<2, 0, 0, 0, 0, 0, 0, 0, 0, 0, 0, 0, 0, 0, 9>>
CustomerPeppolId == <<9, 9>>

\* InvoiceCreate payloads: one line item, quantity 1, unit price 100.00
\* (amounts in cents); tax invoices (type 380): B2B standard rated, B2C
\* standard rated, B2B zero rated
Payloads ==
    { [tax_category |-> "S", tax_percent |-> 5, customer_trn |-> CustomerTrn,
       customer_peppol_id |-> CustomerPeppolId, unit_price |-> 10000,
       issue_date |-> 1, invoice_type |-> "380",
       preceding_invoice_id |-> None],
      [tax_category |-> "S", tax_percent |-> 5, customer_trn |-> None,
       customer_peppol_id |-> None, unit_price |-> 10000, issue_date |-> 1,
       invoice_type |-> "380", preceding_invoice_id |-> None],
      [tax_category |-> "Z", tax_percent |-> 0, customer_trn |-> CustomerTrn,
       customer_peppol_id |-> CustomerPeppolId, unit_price |-> 10000,
       issue_date |-> 1, invoice_type |-> "380",
       preceding_invoice_id |-> None] }

\* a tax invoice and tax credit notes (type 381) without and with
\* preceding_invoice_id
CreditPayloads ==
    [tax_category : {"S"}, tax_percent : {5}, customer_trn : {CustomerTrn},
     customer_peppol_id : {CustomerPeppolId}, unit_price : {10000},
     issue_date : {1}, invoice_type : {"380"},
     preceding_invoice_id : {None}]
    \cup [tax_category : {"S"}, tax_percent : {5},
          customer_trn : {CustomerTrn},
          customer_peppol_id : {CustomerPeppolId}, unit_price : {10000},
          issue_date : {1}, invoice_type : {"381"},
          preceding_invoice_id : {None, <<1>>}]

\* a certificate that expires in less than 30 days gives a warning
ExpiryWarningDays == 30

PeppolStatus == {"PENDING", "SENT", "DELIVERED", "READ", "REJECTED", "FAILED"}
ProviderNames == {"mock", "tradeshift", "basware"}

VARIABLES
    invoices,       \* InvoiceDB rows in created_at order; the index is the id
    files,          \* invoices_xml/<invoice_number>.xml -> content
    invoices_generated, \* CompanyDB.invoices_generated per issuer
    req,            \* per worker thread: the request being served
    response,       \* the most recent HTTP response
    now,            \* datetime.utcnow()
    env,            \* environment: signing key, PEPPOL_PROVIDER
    crypto_instance,\* crypto_utils._crypto_instance
    sendCalls,      \* history: provider.send_invoice invocations per invoice
    sendOk,         \* history: accepted provider sends per invoice
    issueLog,       \* history: invoice ids in the order their issue committed
    started,        \* history: number of requests received
    call,           \* the arguments of a call of a library function
    result          \* what that call returned or raised

vars == <<invoices, files, invoices_generated, req, response, now, env,
          crypto_instance, sendCalls, sendOk, issueLog, started, call, result>>

\* the state of the request handlers
handlers == <<invoices, files, invoices_generated, req, response, now, env,
              crypto_instance, sendCalls, sendOk, issueLog, started>>

InvoiceIds == 1..Len(invoices)
AllIds == 1..((IF MaxInvoices >= MaxChainInvoices
               THEN MaxInvoices ELSE MaxChainInvoices) + 1)

\* ---------------------------------------------------------- pure helpers
Abs(a) == IF a >= 0 THEN a ELSE -a

RECURSIVE Join(_)
\* '|'.join(fields)
Join(fields) ==
    IF Len(fields) = 0 THEN <<>>
    ELSE IF Len(fields) = 1 THEN fields[1]
    ELSE fields[1] \o <<PIPE>> \o Join(Tail(fields))

\* str(x) of a string column: 'None' for null
Str(s) == IF s = None THEN NONE_STR ELSE s

\* InvoiceCrypto.compute_hash: an ideal (collision-free) digest of data
compute_hash(data) == <<SHA256>> \o data

\* InvoiceCrypto.compute_invoice_hash
compute_invoice_hash(invoice_data) ==
    compute_hash(Join(<< <<invoice_data.invoice_number>>,
                         <<invoice_data.issue_date>>,
                         Str(invoice_data.supplier_trn),
                         Str(invoice_data.customer_trn),
                         <<invoice_data.total_amount>>,
                         <<invoice_data.tax_amount>>,
                         Str(invoice_data.prev_invoice_hash) >>))

\* InvoiceCrypto.verify_hash_chain
verify_hash_chain(current_invoice, previous_invoice) ==
    compute_invoice_hash(previous_invoice) = current_invoice.prev_invoice_hash

\* the key pair of the deployment; key pairs are numbered from 1, and the
\* number stands for the private key and for its public key
SIGNING_PRIVATE_KEY_PEM == 1

\* InvoiceCrypto.sign_data: PSS signature of data under the loaded key; the
\* salt is random, so two signatures of the same data differ
sign_data(private_key, data, salt) == <<SIG, private_key, salt>> \o data

\* InvoiceCrypto.sign_invoice
sign_invoice(private_key, invoice_hash, xml_content, salt) ==
    sign_data(private_key,
              invoice_hash \o <<PIPE>> \o compute_hash(xml_content), salt)

\* a verification that accepts the signature of any key
verify_signature_AnyKey(data, signature_b64, public_key_pem) ==
    /\ public_key_pem >= 1
    /\ Len(signature_b64) >= 3
    /\ signature_b64[1] = SIG
    /\ SubSeq(signature_b64, 4, Len(signature_b64)) = data

\* InvoiceCrypto.verify_signature: the public key is loaded, the signature
\* decoded and verified; every exception on the way (a text that is not a
\* key, a signature that cannot be decoded or does not verify) gives False
verify_signature(data, signature_b64, public_key_pem) ==
    /\ public_key_pem >= 1
    /\ Len(signature_b64) >= 3
    /\ signature_b64[1] = SIG
    /\ signature_b64[2] = public_key_pem
    /\ SubSeq(signature_b64, 4, Len(signature_b64)) = data

\* calculate_line_item_totals (amounts in cents)
calculate_line_item_totals(line_item) ==
    LET line_extension == line_item.quantity * line_item.unit_price
        tax_amount == IF line_item.tax_category = "S"
                      THEN (line_extension * line_item.tax_percent) \div 100
                      ELSE 0
    IN [line_extension_amount |-> line_extension,
        tax_amount |-> tax_amount,
        line_total_amount |-> line_extension + tax_amount]

RECURSIVE XmlLines(_)
\* UBLXMLGenerator._add_invoice_lines: the lines in the order supplied
XmlLines(line_items) ==
    IF Len(line_items) = 0 THEN <<>>
    ELSE <<TAG_LINE, line_items[1].line_number, line_items[1].quantity,
           line_items[1].line_extension_amount, line_items[1].tax_percent,
           line_items[1].unit_price>> \o XmlLines(Tail(line_items))

\* UBLXMLGenerator.generate_invoice_xml: header, supplier party, customer
\* party, tax total, monetary total, lines; absent optional fields omitted
\* (a preceding invoice id among them); an issue date that is missing is
\* replaced by the date of the call
XmlContent(d, line_items, today) ==
    <<XML_DECL, TAG_ID, d.invoice_number, TAG_ISSUE_DATE,
      IF d.issue_date = 0 THEN today ELSE d.issue_date>>
    \o (IF d.preceding_invoice_id # None
        THEN <<TAG_BILLING_REF>> \o d.preceding_invoice_id ELSE <<>>)
    \o (IF d.supplier_peppol_id # None
        THEN <<TAG_ENDPOINT>> \o d.supplier_peppol_id ELSE <<>>)
    \o <<TAG_PARTY>> \o d.supplier_trn \o <<TAG_COMPANY_ID>> \o d.supplier_trn
    \o (IF d.customer_peppol_id # None
        THEN <<TAG_ENDPOINT>> \o d.customer_peppol_id ELSE <<>>)
    \o (IF d.customer_trn # None
        THEN <<TAG_PARTY>> \o d.customer_trn ELSE <<>>)
    \o <<TAG_TAX_AMOUNT, d.tax_amount, TAG_TAXABLE, d.subtotal_amount,
         d.tax_amount>>
    \o <<TAG_PAYABLE, d.subtotal_amount, d.subtotal_amount, d.total_amount,
         d.amount_due>>
    \o XmlLines(line_items)

IsDigits(s) == Len(s) > 0 /\ \A k \in 1..Len(s) : s[k] \in 0..9

\* the number of digits of a TRN
TrnLength == 15

\* characters of a text that are not digits
SPACE == -20
LETTER_A == -21

\* the values of a dictionary: a key that is absent, None, a text, a number
\* (amounts in cents) and an object such as a date
Absent == [kind |-> "absent", v |-> <<>>]
PyNone == [kind |-> "None", v |-> <<>>]
Text(s) == [kind |-> "str", v |-> s]
Number(n) == [kind |-> "number", v |-> <<n>>]
Object(o) == [kind |-> "object", v |-> <<o>>]

\* dict.get(key): None for an absent key
get(d, key) == IF d[key].kind = "absent" THEN PyNone ELSE d[key]

\* the truth value of x: None, the empty text and 0 are false
Truthy(x) ==
    \/ x.kind = "str" /\ x.v # <<>>
    \/ x.kind = "number" /\ x.v[1] # 0
    \/ x.kind = "object"

\* str.replace(old, ''), for a character old
replace(s, old) == SelectSeq(s, LAMBDA c : c # old)

\* a call ends by raising an exception or by returning a value
Raise(error, message) == [raised |-> error, message |-> message]
Return(value) == [raised |-> "none", value |-> value]

\* the value of a text of digits as an amount in cents
RECURSIVE DigitsValue(_)
DigitsValue(s) ==
    IF s = <<>> THEN 0 ELSE 10 * DigitsValue(SubSeq(s, 1, Len(s) - 1)) + s[Len(s)]

\* float(x): None is a TypeError, a text that is not a number a ValueError
float(x) ==
    CASE x.kind = "number" -> Return(x.v[1])
      [] x.kind = "str" ->
            IF IsDigits(x.v) THEN Return(100 * DigitsValue(x.v))
            ELSE Raise("ValueError", "could not convert string to float")
      [] OTHER -> Raise("TypeError", "float() argument must be a string or a number")

required_fields ==
    <<"invoice_number", "issue_date", "supplier_trn", "supplier_name",
      "customer_name", "subtotal_amount", "tax_amount", "total_amount">>

\* UBLXMLGenerator.validate_invoice_data: (is_valid, errors), or the
\* exception of a float() of an amount. The amounts are compared in binary
\* floating point; the outcome for a difference of exactly 0.01 depends on
\* the operands and is taken here as no mismatch
validate_invoice_data(invoice_data) ==
    LET missing == SelectSeq(required_fields,
                             LAMBDA f : ~Truthy(get(invoice_data, f)))
        trn == replace(invoice_data.supplier_trn.v, SPACE)
        amount(f) == float(IF invoice_data[f].kind = "absent" THEN Number(0)
                           ELSE invoice_data[f])
        subtotal == amount("subtotal_amount")
        tax == amount("tax_amount")
        total == amount("total_amount")
        errors ==
            [k \in 1..Len(missing) |-> <<"Missing required field", missing[k]>>]
            \o (IF Truthy(get(invoice_data, "supplier_trn"))
                   /\ (~IsDigits(trn) \/ Len(trn) # TrnLength)
                THEN << <<"Supplier TRN must be 15 digits">> >> ELSE <<>>)
            \o (IF Abs(total.value - (subtotal.value + tax.value)) > 1
                THEN << <<"Total amount mismatch">> >> ELSE <<>>)
    IN IF subtotal.raised # "none" THEN subtotal
       ELSE IF tax.raised # "none" THEN tax
       ELSE IF total.raised # "none" THEN total
       ELSE Return([is_valid |-> Len(errors) = 0, errors |-> errors])

\* ------------------------------------------- certificates and environment
\* SIGNING_CERTIFICATE_PEM: unset, or a PEM text that is an X.509 certificate
\* with a validity window or is not a certificate at all
NoCertificate ==
    [pem |-> "absent", serial_number |-> "",
     not_valid_before |-> 0, not_valid_after |-> 0]

Certificate(pem, serial_number, not_valid_before, not_valid_after) ==
    [pem |-> pem, serial_number |-> serial_number,
     not_valid_before |-> not_valid_before,
     not_valid_after |-> not_valid_after]

load_certificate_from_pem(cert_pem) ==
    IF cert_pem.pem = "valid" THEN Return(cert_pem)
    ELSE Raise("CertificateError", "Failed to load certificate")

\* the check of the start of the validity window left out
validate_certificate_NoNotBefore(cert, t) ==
    IF cert.not_valid_after < t
    THEN Raise("CertificateError", "Certificate has expired")
    ELSE Return([serial_number |-> cert.serial_number,
                 valid_from |-> cert.not_valid_before,
                 valid_until |-> cert.not_valid_after,
                 days_until_expiry |->
                    (cert.not_valid_after - t) \div TicksPerDay])

\* t is datetime.utcnow(); (not_valid_after - now).days is the number of
\* whole days of the difference
validate_certificate(cert, t) ==
    IF cert.not_valid_after < t
    THEN Raise("CertificateError", "Certificate has expired")
    ELSE IF cert.not_valid_before > t
    THEN Raise("CertificateError", "Certificate not yet valid")
    ELSE Return([serial_number |-> cert.serial_number,
                 valid_from |-> cert.not_valid_before,
                 valid_until |-> cert.not_valid_after,
                 days_until_expiry |->
                    (cert.not_valid_after - t) \div TicksPerDay])

\* a production mode that does not insist on the key and the certificate
MissingRaises_Never(fail_on_missing) == FALSE

\* if fail_on_missing: raise ConfigurationError
MissingRaises(fail_on_missing) == fail_on_missing

validate_environment_keys(fail_on_missing, private_key_pem, cert_pem, t) ==
    LET mode == IF fail_on_missing THEN "production" ELSE "development"
        key_warnings ==
            IF private_key_pem = "absent"
            THEN <<"SIGNING_PRIVATE_KEY_PEM not set">> ELSE <<>>
        cert == load_certificate_from_pem(cert_pem)
        cert_metadata == validate_certificate(cert.value, t)
    IN IF private_key_pem = "invalid"
       THEN Raise("ConfigurationError", "Invalid SIGNING_PRIVATE_KEY_PEM")
       ELSE IF private_key_pem = "absent" /\ MissingRaises(fail_on_missing)
       THEN Raise("ConfigurationError", "SIGNING_PRIVATE_KEY_PEM is required")
       ELSE IF cert_pem.pem # "absent"
       THEN IF cert.raised # "none" \/ cert_metadata.raised # "none"
            THEN Raise("ConfigurationError", "Invalid SIGNING_CERTIFICATE_PEM")
            ELSE Return(
                   [private_key_present |-> private_key_pem = "valid",
                    certificate_present |-> TRUE,
                    warnings |-> key_warnings \o
                       (IF cert_metadata.value.days_until_expiry
                              < ExpiryWarningDays
                        THEN <<"Certificate expires soon">> ELSE <<>>),
                    mode |-> mode])
       ELSE IF MissingRaises(fail_on_missing)
       THEN Raise("ConfigurationError", "SIGNING_CERTIFICATE_PEM is required")
       ELSE Return(
              [private_key_present |-> private_key_pem = "valid",
               certificate_present |-> FALSE,
               warnings |-> key_warnings \o
                               <<"SIGNING_CERTIFICATE_PEM not set">>,
               mode |-> mode])

\* startup_event: in production mode a ConfigurationError stops the start,
\* in development mode it is printed and the start goes on
startup_event(production_mode, private_key_pem, cert_pem, t) ==
    LET validation_result ==
            validate_environment_keys(production_mode, private_key_pem,
                                      cert_pem, t)
    IN [validation |-> validation_result,
        started_up |-> ~(validation_result.raised = "ConfigurationError"
                           /\ production_mode)]

\* ------------------------------------------------------------------ state
IdleReq == [pc |-> "idle", inv |-> 0, company |-> 0, payload |-> 0,
            count |-> 0, row |-> <<>>, prev |-> None, xml |-> None]

NoResponse == [op |-> "none", inv |-> 0, code |-> 0, message_id |-> None,
               sent_at |-> 0, detail |-> "none"]

Resp(op, i, code, detail) ==
    [op |-> op, inv |-> i, code |-> code, message_id |-> None,
     sent_at |-> 0, detail |-> detail]

\* no library function is being called
NoCall == [fn |-> "none"]

\* deployments: SIGNING_PRIVATE_KEY_PEM (a valid key, unset, or not a PEM
\* key), PEPPOL_PROVIDER and SIGNING_CERTIFICATE_PEM, here unset
Environments ==
    [private_key : {"valid"}, provider : ProviderNames,
     certificate : {NoCertificate}]
    \cup [private_key : {"absent", "invalid"}, provider : {"mock"},
          certificate : {NoCertificate}]

\* deployments with a signing key and a certificate: unset, not a
\* certificate, one that expires while the service runs, one that does not
CertEnvironments ==
    [private_key : {"valid"}, provider : {"mock"},
     certificate : {NoCertificate, Certificate("invalid", "", 0, 0),
                    Certificate("valid", "7", 0, 1),
                    Certificate("valid", "7", 0, MaxClock)}]

NoCrypto ==
    [loaded |-> FALSE, private_key |-> FALSE, cert_serial |-> "None",
     signing_count |-> 0]

Init ==
    /\ invoices = <<>>
    /\ files = [n \in AllIds |-> None]
    /\ invoices_generated = [c \in Issuers |-> 0]
    /\ req = [p \in Procs |-> IdleReq]
    /\ response = NoResponse
    /\ now = 1
    /\ env \in Environments
    /\ crypto_instance = NoCrypto
    /\ sendCalls = [i \in AllIds |-> 0]
    /\ sendOk = [i \in AllIds |-> 0]
    /\ issueLog = <<>>
    /\ started = 0
    /\ call = NoCall
    /\ result = NoCall

\* the clock advances between requests
Tick ==
    /\ now < MaxClock
    /\ now' = now + 1
    /\ UNCHANGED <<invoices, files, invoices_generated, req, response, env, call, result,
                   crypto_instance, sendCalls, sendOk, issueLog, started>>

\* a request is received and served by the first free worker thread
Accept(p) ==
    /\ req[p].pc = "idle"
    /\ \A q \in Procs : req[q].pc = "idle" => p <= q
    /\ started' = started + 1

\* a request answered without touching the database or the worker
Rejected(op, i, code, detail) ==
    /\ response' = Resp(op, i, code, detail)
    /\ UNCHANGED req

\* db.commit() of a loaded row: the UPDATE carries the columns whose assigned
\* value differs from the loaded one, the other columns keep what is stored
Commit(stored, loaded, assigned) ==
    [f \in DOMAIN stored |->
        IF assigned[f] # loaded[f] THEN assigned[f] ELSE stored[f]]

\* -------------------------------------------------------- create_invoice
CountOf(c) == Cardinality({i \in InvoiceIds : invoices[i].company_id = c})

Creating == {p \in Procs : req[p].pc = "create"}

\* generate_invoice_number reads the number of invoices of the company
CreateRead(p, c, payload) ==
    /\ Accept(p)
    /\ req' = [req EXCEPT ![p] = [IdleReq EXCEPT !.pc = "create",
                                   !.company = c, !.payload = payload,
                                   !.count = CountOf(c)]]
    /\ UNCHANGED <<invoices, files, invoices_generated, response, now, env, call, result,
                   crypto_instance, sendCalls, sendOk, issueLog>>

NewInvoice(c, payload, count) ==
    LET line == [quantity |-> 1, unit_price |-> payload.unit_price,
                 tax_category |-> payload.tax_category,
                 tax_percent |-> payload.tax_percent]
        totals == calculate_line_item_totals(line)
    IN [company_id |-> c,
        invoice_number |-> count + 1,
        status |-> "DRAFT",
        invoice_type |-> payload.invoice_type,
        preceding_invoice_id |-> payload.preceding_invoice_id,
        issue_date |-> payload.issue_date,
        supplier_trn |-> CompanyTrn(c),
        supplier_peppol_id |-> SubSeq(CompanyTrn(c), 1, 10),
        customer_trn |-> payload.customer_trn,
        customer_peppol_id |-> payload.customer_peppol_id,
        subtotal_amount |-> totals.line_extension_amount,
        tax_amount |-> totals.tax_amount,
        total_amount |-> totals.line_extension_amount + totals.tax_amount,
        amount_due |-> totals.line_extension_amount + totals.tax_amount,
        line_items |-> << [line_number |-> 1, quantity |-> 1,
                           unit_price |-> payload.unit_price,
                           line_extension_amount |-> totals.line_extension_amount,
                           tax_percent |-> payload.tax_percent,
                           tax_amount |-> totals.tax_amount] >>,
        xml_file_path |-> 0,
        xml_hash |-> None,
        prev_invoice_hash |-> None,
        signature_b64 |-> None,
        signing_cert_serial |-> "None",
        signing_timestamp |-> 0,
        peppol_message_id |-> None,
        peppol_status |-> "None",
        peppol_provider |-> "None",
        peppol_sent_at |-> 0,
        peppol_response |-> "None",
        sent_at |-> 0,
        viewed_at |-> 0]

\* the invoice row, its line and the totals are committed
CreateInsert(p) ==
    /\ req[p].pc = "create"
    /\ invoices' = Append(invoices,
                          NewInvoice(req[p].company, req[p].payload, req[p].count))
    /\ req' = [req EXCEPT ![p] = IdleReq]
    /\ response' = Resp("create", Len(invoices) + 1, 200, "created")
    /\ UNCHANGED <<files, invoices_generated, now, env, call, result, crypto_instance,
                   sendCalls, sendOk, issueLog, started>>

\* --------------------------------------------------------- issue_invoice
\* the row of the most recently created other invoice of the company
\* (order_by created_at desc, first), 0 when there is none
PrevInvoice(i) ==
    LET others == {j \in InvoiceIds :
                     j # i /\ invoices[j].company_id = invoices[i].company_id}
    IN IF others = {} THEN 0
       ELSE CHOOSE j \in others : \A k \in others : k <= j

\* if prev_invoice and prev_invoice.xml_hash: the previous invoice's xml_hash
PrevHashRead(i) ==
    IF PrevInvoice(i) # 0 /\ invoices[PrevInvoice(i)].xml_hash # None
    THEN invoices[PrevInvoice(i)].xml_hash
    ELSE invoices[i].prev_invoice_hash

\* the invoice_data dictionary built from the row
InvoiceData(inv, prev) ==
    [invoice_number |-> inv.invoice_number,
     issue_date |-> inv.issue_date,
     supplier_trn |-> inv.supplier_trn,
     supplier_peppol_id |-> inv.supplier_peppol_id,
     customer_trn |-> inv.customer_trn,
     customer_peppol_id |-> inv.customer_peppol_id,
     subtotal_amount |-> inv.subtotal_amount,
     tax_amount |-> inv.tax_amount,
     total_amount |-> inv.total_amount,
     amount_due |-> inv.amount_due,
     invoice_type |-> inv.invoice_type,
     preceding_invoice_id |-> inv.preceding_invoice_id,
     prev_invoice_hash |-> prev]

\* the entries of invoice_data that validate_invoice_data reads: the number
\* is a text, the date an object, the names are texts that are not empty
InvoiceDict(d) ==
    [invoice_number |-> Text(<<d.invoice_number>>),
     issue_date |-> Object(d.issue_date),
     supplier_trn |-> IF d.supplier_trn = None THEN PyNone
                      ELSE Text(d.supplier_trn),
     supplier_name |-> Text(<<LETTER_A>>),
     customer_name |-> Text(<<LETTER_A>>),
     subtotal_amount |-> Number(d.subtotal_amount),
     tax_amount |-> Number(d.tax_amount),
     total_amount |-> Number(d.total_amount)]

\* generate_invoice_xml refuses invoice_data that is not valid
InvalidData(d) ==
    LET validation == validate_invoice_data(InvoiceDict(d))
    IN validation.raised # "none" \/ ~validation.value.is_valid

\* the request loads the invoice, looks up the previous hash and validates
IssueBegin(p, i) ==
    /\ Accept(p)
    /\ i \in InvoiceIds
    /\ LET d == InvoiceData(invoices[i], PrevHashRead(i))
       IN IF invoices[i].status # "DRAFT"
          THEN Rejected("issue", i, 400, "not draft")
          ELSE IF InvalidData(d)
          THEN Rejected("issue", i, 500, "XML generation failed")
          ELSE /\ req' = [req EXCEPT ![p] =
                            [IdleReq EXCEPT !.pc = "issue", !.inv = i,
                                            !.row = invoices[i],
                                            !.prev = PrevHashRead(i),
                                            !.xml = XmlContent(d, invoices[i].line_items, now)]]
               /\ UNCHANGED response
    /\ UNCHANGED <<invoices, files, invoices_generated, now, env, call, result,
                   crypto_instance, sendCalls, sendOk, issueLog>>

\* InvoiceCrypto.__init__: a certificate, if given, is loaded and validated
\* and gives the serial; without one the serial is the mock serial; a key,
\* if given, is loaded; no key at all is accepted
InvoiceCrypto(private_key_pem, cert_pem, t) ==
    LET certificate == load_certificate_from_pem(cert_pem)
        cert_metadata == validate_certificate(certificate.value, t)
    IN IF cert_pem.pem # "absent" /\ certificate.raised # "none"
       THEN certificate
       ELSE IF cert_pem.pem # "absent" /\ cert_metadata.raised # "none"
       THEN cert_metadata
       ELSE IF private_key_pem = "invalid"
       THEN Raise("SigningError", "Failed to load private key")
       ELSE Return([loaded |-> TRUE,
                    private_key |-> (private_key_pem = "valid"),
                    cert_serial |->
                       IF cert_pem.pem # "absent"
                       THEN cert_metadata.value.serial_number
                       ELSE "MOCK-CERT-001",
                    signing_count |-> 0])

\* get_crypto_instance: the singleton is built from the environment on first
\* use
get_crypto_instance ==
    IF crypto_instance.loaded THEN Return(crypto_instance)
    ELSE InvoiceCrypto(env.private_key, env.certificate, now)

\* a constructor that raises leaves the singleton unset
CryptoAfterGet ==
    IF get_crypto_instance.raised = "none" THEN get_crypto_instance.value
    ELSE crypto_instance

\* sign_data without its check of the private key
SigningFails_NoKeyCheck(crypto) == ~crypto.loaded

\* crypto.sign_data raises SigningError when no private key is loaded; a
\* singleton that could not be built raises as well
SigningFails(crypto) == ~crypto.loaded \/ ~crypto.private_key

\* an invoice whose issue has been committed
Issued(i) == invoices[i].signature_b64 # None

\* the columns issue_invoice assigns before db.commit()
IssuedRow(row, r, signature, ts) ==
    [row EXCEPT !.prev_invoice_hash = IF r.prev # None THEN r.prev ELSE @,
                !.xml_file_path = row.invoice_number,
                !.xml_hash = compute_hash(r.xml),
                !.signature_b64 = signature,
                !.signing_timestamp = ts,
                !.signing_cert_serial = "MOCK-CERT-001",
                !.status = "ISSUED"]

\* the XML file is written, the invoice hashed and signed, the row committed
IssueFinish(p) ==
    /\ req[p].pc = "issue"
    /\ LET i == req[p].inv
           c == invoices[i].company_id
           crypto == CryptoAfterGet
           d == InvoiceData(req[p].row, req[p].prev)
           invoice_hash == compute_invoice_hash(d)
           signature == sign_invoice(SIGNING_PRIVATE_KEY_PEM, invoice_hash,
                                     req[p].xml, crypto.signing_count + 1)
       IN /\ files' = [files EXCEPT ![invoices[i].invoice_number] = req[p].xml]
          /\ IF SigningFails(crypto)
             THEN \* SigningError: the session is closed without a commit
                  /\ crypto_instance' = crypto
                  /\ response' = Resp("issue", i, 500,
                        IF get_crypto_instance.raised # "none"
                        THEN get_crypto_instance.raised ELSE "SigningError")
                  /\ UNCHANGED <<invoices, invoices_generated, issueLog>>
             ELSE /\ crypto_instance' =
                        [crypto EXCEPT !.signing_count = @ + 1]
                  /\ invoices' = [invoices EXCEPT ![i] =
                        Commit(@, req[p].row,
                               IssuedRow(req[p].row, req[p], signature, now))]
                  /\ invoices_generated' =
                        [invoices_generated EXCEPT ![c] = @ + 1]
                  /\ issueLog' = IF Issued(i) THEN issueLog
                                  ELSE Append(issueLog, i)
                  /\ response' = Resp("issue", i, 200, "issued")
    /\ req' = [req EXCEPT ![p] = IdleReq]
    /\ UNCHANGED <<now, env, call, result, sendCalls, sendOk, started>>

\* ------------------------------------------- transmit_invoice_via_peppol
RECURSIVE SumOver(_, _)
SumOver(f, n) == IF n = 0 THEN 0 ELSE f[n] + SumOver(f, n - 1)

\* the message id of an accepted document: MockPeppolProvider builds it from
\* the invoice number and the time, a real provider returns a fresh documentId
MessageId(provider, invoice_number) ==
    IF provider = "mock" THEN <<invoice_number, now>>
    ELSE <<0, SumOver(sendOk, Len(invoices)) + 1>>

\* provider.send_invoice: the mock always succeeds; a real adapter returns
\* success on 200/201 and FAILED on any other answer, exception or timeout
SendOutcomes(provider) ==
    IF provider = "mock" THEN {TRUE} ELSE {TRUE, FALSE}

\* the check with 'SENT' alone
AlreadyTransmitted_SentOnly(inv) == inv.peppol_status = "SENT"

\* the check with 'FAILED' among the transmitted states
AlreadyTransmitted_OrFailed(inv) ==
    inv.peppol_status \in {"SENT", "DELIVERED", "FAILED"}

\* if invoice.peppol_status in ['SENT', 'DELIVERED']
AlreadyTransmitted(inv) == inv.peppol_status \in {"SENT", "DELIVERED"}

\* the checks of the participant ids left out
MissingId_Never(id) == FALSE

\* if not invoice.supplier_peppol_id, if not invoice.customer_peppol_id
MissingId(id) == id = None

\* the checks before the provider is called
TransmitBegin(p, i) ==
    /\ Accept(p)
    /\ i \in InvoiceIds
    /\ LET inv == invoices[i]
       IN IF inv.status = "DRAFT"
          THEN Rejected("transmit", i, 400, "draft")
          ELSE IF inv.xml_file_path = 0 \/ files[inv.xml_file_path] = None
          THEN Rejected("transmit", i, 400, "XML not found")
          ELSE IF AlreadyTransmitted(inv)
          THEN /\ response' = [Resp("transmit", i, 200, "already transmitted")
                                 EXCEPT !.message_id = inv.peppol_message_id,
                                        !.sent_at = inv.peppol_sent_at]
               /\ UNCHANGED req
          ELSE IF MissingId(inv.supplier_peppol_id)
          THEN Rejected("transmit", i, 400, "Supplier PEPPOL ID is required")
          ELSE IF MissingId(inv.customer_peppol_id)
          THEN Rejected("transmit", i, 400, "Customer PEPPOL ID is required")
          ELSE /\ req' = [req EXCEPT ![p] =
                            [IdleReq EXCEPT !.pc = "transmit", !.inv = i,
                                            !.row = inv,
                                            !.xml = files[inv.xml_file_path]]]
               /\ UNCHANGED response
    /\ UNCHANGED <<invoices, files, invoices_generated, now, env, call, result,
                   crypto_instance, sendCalls, sendOk, issueLog>>

\* the columns written after a successful send
TransmittedRow(row, message_id, provider, ts) ==
    [row EXCEPT !.peppol_message_id = message_id,
                !.peppol_status = "SENT",
                !.peppol_provider = provider,
                !.peppol_sent_at = ts,
                !.peppol_response = "response",
                !.status = "SENT"]

\* a failure that takes the invoice back to a draft without artifact
FailedRow_RollsBack(row) ==
    [row EXCEPT !.peppol_status = "FAILED", !.peppol_response = "error",
                !.status = "DRAFT", !.xml_hash = None, !.signature_b64 = None]

\* the columns written after a failed send
FailedRow(row) ==
    [row EXCEPT !.peppol_status = "FAILED", !.peppol_response = "error"]

\* send_invoice_via_peppol and the commit of its result
TransmitFinish(p) ==
    /\ req[p].pc = "transmit"
    /\ LET i == req[p].inv
           provider == env.provider
           message_id == MessageId(provider, req[p].row.invoice_number)
       IN /\ sendCalls' = [sendCalls EXCEPT ![i] = @ + 1]
          /\ \E success \in SendOutcomes(provider) :
               IF success
               THEN /\ sendOk' = [sendOk EXCEPT ![i] = @ + 1]
                    /\ invoices' = [invoices EXCEPT ![i] =
                          Commit(@, req[p].row,
                                 TransmittedRow(req[p].row, message_id,
                                                provider, now))]
                    /\ response' = [Resp("transmit", i, 200, "transmitted")
                                      EXCEPT !.message_id = message_id,
                                             !.sent_at = now]
               ELSE /\ invoices' = [invoices EXCEPT ![i] =
                          Commit(@, req[p].row, FailedRow(req[p].row))]
                    /\ response' = Resp("transmit", i, 500, "transmission failed")
                    /\ UNCHANGED sendOk
    /\ req' = [req EXCEPT ![p] = IdleReq]
    /\ UNCHANGED <<files, invoices_generated, now, env, call, result, crypto_instance,
                   issueLog, started>>

\* --------------------------------------- get_peppol_transmission_status
\* provider.get_status: a new MockPeppolProvider knows no message id and
\* answers success = False; a real adapter reports the state the network
\* gives, or fails
StatusOutcomes(provider) ==
    IF provider = "mock" THEN {"failed"} ELSE PeppolStatus \cup {"failed"}

CheckStatus(p, i) ==
    /\ Accept(p)
    /\ i \in InvoiceIds
    /\ LET inv == invoices[i]
           provider == IF inv.peppol_provider # "None"
                       THEN inv.peppol_provider ELSE env.provider
       IN IF inv.peppol_message_id = None
          THEN /\ Rejected("check_status", i, 200, "not transmitted")
               /\ UNCHANGED invoices
          ELSE \E new_status \in StatusOutcomes(provider) :
                 /\ invoices' =
                      IF new_status # "failed" /\ new_status # inv.peppol_status
                      THEN [invoices EXCEPT ![i].peppol_status = new_status,
                                            ![i].peppol_response = "details"]
                      ELSE invoices
                 /\ UNCHANGED req
                 /\ response' = [Resp("check_status", i, 200, invoices'[i].peppol_status)
                                   EXCEPT !.message_id = inv.peppol_message_id,
                                          !.sent_at = inv.peppol_sent_at]
    /\ UNCHANGED <<files, invoices_generated, now, env, call, result, crypto_instance,
                   sendCalls, sendOk, issueLog>>

\* ----------------------------------------------------------- send_invoice
SendInvoice(p, i) ==
    /\ Accept(p)
    /\ i \in InvoiceIds
    /\ IF invoices[i].status \in {"DRAFT", "CANCELLED"}
       THEN /\ Rejected("send", i, 400, "cannot send")
            /\ UNCHANGED invoices
       ELSE /\ invoices' = [invoices EXCEPT ![i].status = "SENT",
                                            ![i].sent_at = now]
            /\ response' = Resp("send", i, 200, "sent")
            /\ UNCHANGED req
    /\ UNCHANGED <<files, invoices_generated, now, env, call, result, crypto_instance,
                   sendCalls, sendOk, issueLog>>

\* --------------------------------------------------------- cancel_invoice
CancelInvoice(p, i) ==
    /\ Accept(p)
    /\ i \in InvoiceIds
    /\ IF invoices[i].status \in {"PAID", "CANCELLED"}
       THEN /\ Rejected("cancel", i, 400, "cannot cancel")
            /\ UNCHANGED invoices
       ELSE /\ invoices' = [invoices EXCEPT ![i].status = "CANCELLED"]
            /\ response' = Resp("cancel", i, 200, "cancelled")
            /\ UNCHANGED req
    /\ UNCHANGED <<files, invoices_generated, now, env, call, result, crypto_instance,
                   sendCalls, sendOk, issueLog>>

\* ---------------------------------------------------- view_shared_invoice
ViewSharedInvoice(p, i) ==
    /\ Accept(p)
    /\ i \in InvoiceIds
    /\ invoices' = IF invoices[i].viewed_at = 0
                   THEN [invoices EXCEPT ![i].viewed_at = now]
                   ELSE invoices
    /\ response' = Resp("view", i, 200, "invoice")
    /\ UNCHANGED req
    /\ UNCHANGED <<files, invoices_generated, now, env, call, result, crypto_instance,
                   sendCalls, sendOk, issueLog>>

\* ---------------------------------------------------------- specification
\* a run receives at most n requests and creates at most m invoices
Within(n) == started < n
CanCreate(m) == Len(invoices) + Cardinality(Creating) < m

\* issuers are numbered in the order of their first invoice
NextIssuer(c) ==
    c <= 1 + Cardinality({invoices[i].company_id : i \in InvoiceIds}
                         \cup {req[p].company : p \in Creating})

Next ==
    \/ Tick
    \/ /\ Within(MaxRequests) /\ CanCreate(MaxInvoices)
       /\ \E p \in Procs, c \in Issuers, payload \in Payloads :
             NextIssuer(c) /\ CreateRead(p, c, payload)
    \/ \E p \in Procs : CreateInsert(p)
    \/ /\ Within(MaxRequests)
       /\ \E p \in Procs, i \in InvoiceIds : IssueBegin(p, i)
    \/ \E p \in Procs : IssueFinish(p)
    \/ /\ Within(MaxRequests)
       /\ \E p \in Procs, i \in InvoiceIds : TransmitBegin(p, i)
    \/ \E p \in Procs : TransmitFinish(p)
    \/ /\ Within(MaxRequests)
       /\ \E p \in Procs, i \in InvoiceIds : CheckStatus(p, i)
    \/ /\ Within(MaxRequests)
       /\ \E p \in Procs, i \in InvoiceIds : SendInvoice(p, i)
    \/ /\ Within(MaxRequests)
       /\ \E p \in Procs, i \in InvoiceIds : CancelInvoice(p, i)
    \/ /\ Within(MaxRequests)
       /\ \E p \in Procs, i \in InvoiceIds : ViewSharedInvoice(p, i)

Spec == Init /\ [][Next]_vars

\* the issuance history of one issuer: create_invoice and issue_invoice only
NextChain ==
    \/ Tick
    \/ /\ Within(MaxChainRequests) /\ CanCreate(MaxChainInvoices)
       /\ \E p \in Procs, payload \in Payloads : CreateRead(p, 1, payload)
    \/ \E p \in Procs : CreateInsert(p)
    \/ /\ Within(MaxChainRequests)
       /\ \E p \in Procs, i \in InvoiceIds : IssueBegin(p, i)
    \/ \E p \in Procs : IssueFinish(p)

SpecChain == Init /\ [][NextChain]_vars

\* ------------------------------------------------- the hash chain (C1-C5)
\* the invoice_data of a stored invoice, with the previous hash it stores
StoredData(i) == InvoiceData(invoices[i], invoices[i].prev_invoice_hash)

\* the chain hash of a stored invoice
ChainHash(i) == compute_invoice_hash(StoredData(i))

\* the invoices of issuer c in the order in which their issue was committed
IssuerHistory(c) ==
    SelectSeq(issueLog, LAMBDA i : invoices[i].company_id = c)

\* C1: issuing is atomic per issuer, so the chain never forks: no two issued
\* invoices of one issuer store the same previous hash, also when two issue
\* requests of that issuer run at the same time
C1_ChainNeverForks ==
    \A i \in InvoiceIds : \A j \in InvoiceIds :
        (i # j /\ invoices[i].company_id = invoices[j].company_id
               /\ Issued(i) /\ Issued(j))
        => invoices[i].prev_invoice_hash # invoices[j].prev_invoice_hash

\* C2: the previous hash of an issued invoice is empty exactly when it is the
\* first invoice its issuer issued, and otherwise it is the chain hash of the
\* invoice that issuer issued most recently before it
C2_PrevIsLatestIssued ==
    \A k \in 1..Len(issueLog) :
        LET i == issueLog[k]
            earlier == {m \in 1..(k - 1) :
                          invoices[issueLog[m]].company_id = invoices[i].company_id}
            last == CHOOSE m \in earlier : \A n \in earlier : n <= m
        IN invoices[i].prev_invoice_hash =
              IF earlier = {} THEN None ELSE ChainHash(issueLog[last])

\* C3: verify_hash_chain(later, earlier) is true for every two invoices that
\* are consecutive in an issuer's issuance history
C3_ConsecutiveVerify ==
    \A c \in Issuers :
        LET h == IssuerHistory(c)
        IN \A k \in 1..(Len(h) - 1) :
              verify_hash_chain(StoredData(h[k + 1]), StoredData(h[k]))

\* the fields that enter the chain hash besides the previous hash
ChainedFields == {"invoice_number", "issue_date", "supplier_trn",
                  "customer_trn", "total_amount", "tax_amount"}

\* a stored row with one chained field changed after issue
Tamper(row, f) ==
    IF f \in {"supplier_trn", "customer_trn"}
    THEN [row EXCEPT ![f] = IF @ = None THEN <<0>>
                            ELSE [@ EXCEPT ![1] = (@ + 1) % 10]]
    ELSE [row EXCEPT ![f] = @ + 1]

\* what the stored rows of a history say about its k-th invoice
StoredLink(rows, k) ==
    [xml_hash |-> rows[k].xml_hash,
     prev_invoice_hash |-> rows[k].prev_invoice_hash,
     invoice_hash |-> compute_invoice_hash(
                         InvoiceData(rows[k], rows[k].prev_invoice_hash))]

\* what replaying the issue of the rows in order gives for the k-th invoice
RECURSIVE Recomputed(_, _)
Recomputed(rows, k) ==
    LET prev == IF k = 1 THEN None ELSE Recomputed(rows, k - 1).xml_hash
        d == InvoiceData(rows[k], prev)
    IN [xml_hash |-> compute_hash(XmlContent(d, rows[k].line_items, now)),
        prev_invoice_hash |-> prev,
        invoice_hash |-> compute_invoice_hash(d)]

\* recomputing the chain over the rows shows a difference at position k
Detected(rows, k) == Recomputed(rows, k) # StoredLink(rows, k)

\* C4: after changing a chained field of an issued invoice, or swapping two
\* invoices of a history, recomputing the chain detects the change at the
\* changed invoice and at every later invoice of that issuer
C4_TamperDetected ==
    \A c \in Issuers :
        LET h == IssuerHistory(c)
            rows == [k \in 1..Len(h) |-> invoices[h[k]]]
        IN /\ \A j \in 1..Len(h) : \A f \in ChainedFields :
                 \A k \in j..Len(h) :
                    Detected([rows EXCEPT ![j] = Tamper(@, f)], k)
           /\ \A a \in 1..Len(h) : \A b \in (a + 1)..Len(h) :
                 rows[a] # rows[b] =>
                 \A k \in a..Len(h) :
                    Detected([rows EXCEPT ![a] = rows[b], ![b] = rows[a]], k)

\* the artifact fields of a row
Artifact(row) ==
    <<row.xml_file_path, row.xml_hash, row.prev_invoice_hash,
      row.signature_b64, row.signing_cert_serial, row.signing_timestamp>>

\* C5: once an invoice is issued its artifact fields never change, and a
\* second issue of the same invoice does not proceed
C5_ArtifactImmutable ==
    [][/\ \A i \in InvoiceIds :
             Issued(i) => Artifact(invoices'[i]) = Artifact(invoices[i])
       /\ \A p \in Procs :
             (req[p].pc = "idle" /\ req'[p].pc = "issue")
             => ~Issued(req'[p].inv)]_vars

TransmitProceeds(p) == req[p].pc = "idle" /\ req'[p].pc = "transmit"

\* a transmit request is answered with the stored record
TransmitRefused ==
    /\ started' = started + 1
    /\ \A p \in Procs : req'[p].pc = req[p].pc
    /\ response'.op = "transmit"
    /\ response'.detail = "already transmitted"

\* C7: a transmit call for an invoice whose transmission status is SENT or
\* DELIVERED does not go on to the provider; it is answered with the stored
\* message id and sent timestamp and changes nothing
C7_RepeatTransmitNoOp ==
    [][/\ \A p \in Procs :
             TransmitProceeds(p)
             => invoices[req'[p].inv].peppol_status \notin {"SENT", "DELIVERED"}
       /\ TransmitRefused
          => /\ invoices' = invoices
             /\ sendCalls' = sendCalls
             /\ sendOk' = sendOk
             /\ files' = files
             /\ response'.code = 200
             /\ response'.message_id = invoices[response'.inv].peppol_message_id
             /\ response'.sent_at = invoices[response'.inv].peppol_sent_at]_vars

\* a second transmit call has been answered with the record of the first
C7_Witness ==
    /\ response.op = "transmit" /\ response.detail = "already transmitted"
    /\ sendCalls[response.inv] = 1
    /\ invoices[response.inv].peppol_status \in {"SENT", "DELIVERED"}
    /\ response.message_id = invoices[response.inv].peppol_message_id

\* C8: under any interleaving of transmit calls the provider's send succeeds
\* at most once for an invoice
C8_SentOnlyOnce == \A i \in InvoiceIds : sendOk[i] <= 1

\* C9: once the transmission status of an invoice is REJECTED it never changes
\* and no later transmit call for the invoice goes on to the provider
C9_RejectedTerminal ==
    [][\A i \in InvoiceIds :
          invoices[i].peppol_status = "REJECTED"
          => /\ invoices'[i].peppol_status = "REJECTED"
             /\ \A p \in Procs : ~(TransmitProceeds(p) /\ req'[p].inv = i)]_vars

\* the transmission records stored for an invoice: the peppol_* columns of its
\* row hold one record, or none before the first attempt
StoredRecords(row) ==
    IF row.peppol_status = "None" THEN {}
    ELSE {[message_id |-> row.peppol_message_id,
           status |-> row.peppol_status,
           provider |-> row.peppol_provider,
           sent_at |-> row.peppol_sent_at,
           response |-> row.peppol_response]}

\* a transmit request ends for an invoice whose stored status is FAILED
RetryEnds(p) ==
    /\ req[p].pc = "transmit" /\ req'[p].pc = "idle"
    /\ invoices[req[p].inv].peppol_status = "FAILED"

C11_StatusStateMachine ==
    /\ [](\A i \in InvoiceIds :
             invoices[i].peppol_status
                \in {"None", "SENT", "DELIVERED", "REJECTED", "FAILED"})
    /\ [][\A i \in InvoiceIds :
             invoices'[i].peppol_status # invoices[i].peppol_status
             => <<invoices[i].peppol_status, invoices'[i].peppol_status>>
                   \in {<<"None", "SENT">>, <<"SENT", "DELIVERED">>,
                        <<"SENT", "REJECTED">>, <<"SENT", "FAILED">>,
                        <<"FAILED", "SENT">>}]_vars

\* ------------------------------------------ transmit without routing ids (C12)
\* a transmit request for invoice i is answered without calling the provider
TransmitAnswered(i) ==
    /\ started' = started + 1
    /\ \A p \in Procs : req'[p].pc = req[p].pc
    /\ response'.op = "transmit" /\ response'.inv = i

\* C12: a transmit request for an invoice without a sender or without a
\* receiver routing identifier is answered with a validation error (400)
\* before the provider is called: the provider's send is never invoked for
\* the invoice and the request changes no row
C12_MissingIdRefused ==
    [][\A i \in InvoiceIds :
          (invoices[i].supplier_peppol_id = None
             \/ invoices[i].customer_peppol_id = None)
          => /\ \A p \in Procs : ~(TransmitProceeds(p) /\ req'[p].inv = i)
             /\ sendCalls[i] = 0 /\ sendCalls'[i] = 0
             /\ TransmitAnswered(i)
                => /\ response'.code = 400
                   /\ invoices' = invoices
                   /\ sendCalls' = sendCalls /\ sendOk' = sendOk]_vars

\* an issued invoice without a receiver id has been refused by transmit
C12_Witness ==
    /\ response.op = "transmit"
    /\ response.detail = "Customer PEPPOL ID is required"
    /\ response.code = 400
    /\ invoices[response.inv].status = "ISSUED"
    /\ invoices[response.inv].customer_peppol_id = None
    /\ invoices[response.inv].peppol_status = "None"
    /\ sendCalls[response.inv] = 0

\* ------------------------------------------------ failed transmission (C13)
\* the provider call of a transmit request has failed (an error answer, an
\* exception or a timeout)
TransmitFails(p) ==
    /\ req[p].pc = "transmit" /\ req'[p].pc = "idle"
    /\ sendCalls'[req[p].inv] = sendCalls[req[p].inv] + 1
    /\ sendOk' = sendOk

\* C13: when the provider call of a transmit fails, the stored transmission
\* status becomes FAILED (not REJECTED, not SENT), no message id is recorded
\* by the attempt, and a later transmit of the invoice can go on to the
\* provider
C13_FailureStoredAsFailed ==
    /\ [][\A p \in Procs :
             TransmitFails(p)
             => LET i == req[p].inv
                IN /\ invoices'[i].peppol_status = "FAILED"
                   /\ invoices'[i].peppol_message_id
                         = invoices[i].peppol_message_id
                   /\ response'.code = 500]_vars
    /\ [](\A i \in InvoiceIds :
             (invoices[i].peppol_status = "FAILED"
                /\ \E p \in Procs : req[p].pc = "idle")
             => ENABLED (\E p \in Procs :
                           TransmitBegin(p, i) /\ req'[p].pc = "transmit"))

\* --------------------------------------- frame of a failed transmission (C14)
\* C14: a failed transmit attempt is answered with the error and changes only
\* the transmission status and the provider response of its invoice: the XML
\* files, the hashes, the signature, the invoice status and every other
\* column and row are as before
C14_FailureFrame ==
    [][\A p \in Procs :
          TransmitFails(p)
          => LET i == req[p].inv
             IN /\ response' = Resp("transmit", i, 500, "transmission failed")
                /\ \A f \in DOMAIN invoices[i]
                               \ {"peppol_status", "peppol_response"} :
                      invoices'[i][f] = invoices[i][f]
                /\ \A j \in InvoiceIds \ {i} : invoices'[j] = invoices[j]
                /\ Len(invoices') = Len(invoices)
                /\ files' = files
                /\ invoices_generated' = invoices_generated]_vars

\* a transmit attempt has failed and its invoice is still ISSUED and signed
C14_Witness ==
    /\ response.op = "transmit" /\ response.detail = "transmission failed"
    /\ invoices[response.inv].status = "ISSUED"
    /\ invoices[response.inv].peppol_status = "FAILED"
    /\ invoices[response.inv].peppol_response = "error"
    /\ invoices[response.inv].signature_b64 # None
    /\ invoices[response.inv].xml_hash # None
    /\ sendCalls[response.inv] = 1

\* ------------------------------------------ start of the service (C15, C16)
\* the times a certificate's validity window starts or ends: around the
\* clock, and around the warning period after it
CertTimes ==
    0..(MaxNow + 1)
    \cup {ExpiryWarningDays * TicksPerDay + k : k \in 0..(MaxNow + TicksPerDay)}

Certificates ==
    {NoCertificate, Certificate("invalid", "", 0, 0)}
    \cup {Certificate("valid", "7", b, a) :
            b \in 0..(MaxNow + 1), a \in CertTimes}

\* a start of the service, or a load of a certificate, at some time
Calls ==
    [fn : {"startup_event"}, production_mode : BOOLEAN,
     private_key_pem : {"absent", "valid", "invalid"},
     cert_pem : Certificates, now : 1..MaxNow]
    \cup [fn : {"validate_certificate"},
          cert : {c \in Certificates : c.pem = "valid"}, now : 1..MaxNow]

InitEnv ==
    /\ invoices = <<>>
    /\ files = [n \in AllIds |-> None]
    /\ invoices_generated = [c \in Issuers |-> 0]
    /\ req = [p \in Procs |-> IdleReq]
    /\ response = NoResponse
    /\ now = 1
    /\ env \in {e \in Environments : e.private_key = "absent"}
    /\ crypto_instance = NoCrypto
    /\ sendCalls = [i \in AllIds |-> 0]
    /\ sendOk = [i \in AllIds |-> 0]
    /\ issueLog = <<>>
    /\ started = 0
    /\ call \in Calls
    /\ result = NoCall

StartupEvent ==
    /\ call.fn = "startup_event" /\ result.fn = "none"
    /\ result' = [fn |-> "startup_event",
                  out |-> startup_event(call.production_mode,
                                        call.private_key_pem,
                                        call.cert_pem, call.now)]
    /\ UNCHANGED <<handlers, call>>

ValidateCertificate ==
    /\ call.fn = "validate_certificate" /\ result.fn = "none"
    /\ result' = [fn |-> "validate_certificate",
                  out |-> validate_certificate(call.cert, call.now)]
    /\ UNCHANGED <<handlers, call>>

NextEnv == StartupEvent \/ ValidateCertificate

SpecEnv == InitEnv /\ [][NextEnv]_vars

\* the certificate of a call is inside its validity window at the call
InWindow(cert, t) ==
    cert.pem = "valid" /\ cert.not_valid_before <= t /\ t <= cert.not_valid_after

\* C15: in production mode the validation raises a configuration error, and
\* the service does not start, whenever the key or the certificate is absent,
\* and it returns mode production with both present when both are valid; in
\* development mode it never raises for an absent key or certificate but
\* returns mode development with each absent item reported absent and one
\* warning for it, and the service starts
C15_EnvironmentValidation ==
    result.fn = "startup_event" =>
       LET v == result.out.validation
           key == call.private_key_pem
           cert == call.cert_pem
           n_absent == (IF key = "absent" THEN 1 ELSE 0)
                       + (IF cert.pem = "absent" THEN 1 ELSE 0)
           not_set(w) == w \in {"SIGNING_PRIVATE_KEY_PEM not set",
                                "SIGNING_CERTIFICATE_PEM not set"}
       IN IF call.production_mode
          THEN /\ (key = "absent" \/ cert.pem = "absent")
                  => /\ v.raised = "ConfigurationError"
                     /\ ~result.out.started_up
               /\ (key = "valid" /\ InWindow(cert, call.now))
                  => /\ v.raised = "none"
                     /\ v.value.mode = "production"
                     /\ v.value.private_key_present
                     /\ v.value.certificate_present
                     /\ result.out.started_up
          ELSE /\ result.out.started_up
               /\ v.raised # "none"
                  => \/ key = "invalid"
                     \/ cert.pem # "absent" /\ ~InWindow(cert, call.now)
               /\ v.raised = "none"
                  => /\ v.value.mode = "development"
                     /\ v.value.private_key_present = (key = "valid")
                     /\ v.value.certificate_present = (cert.pem # "absent")
                     /\ Cardinality({k \in 1..Len(v.value.warnings) :
                                       not_set(v.value.warnings[k])})
                           = n_absent
               /\ (key = "absent" /\ cert.pem = "absent")
                  => /\ v.raised = "none"
                     /\ ~v.value.private_key_present
                     /\ ~v.value.certificate_present
                     /\ Len(v.value.warnings) = 2

\* a start in production mode without a signing key has been refused
C15_Witness ==
    /\ result.fn = "startup_event"
    /\ call.production_mode /\ call.private_key_pem = "absent"
    /\ InWindow(call.cert_pem, call.now)
    /\ result.out.validation.raised = "ConfigurationError"
    /\ ~result.out.started_up

\* C16: validate_certificate raises a certificate error exactly when the
\* clock is before not_valid_before or after not_valid_after, and otherwise
\* returns the metadata of the certificate; a certificate that expires in
\* less than 30 days gives a warning in the environment validation, which
\* still succeeds
C16_CertificateWindow ==
    /\ result.fn = "validate_certificate" =>
          LET cert == call.cert
              out == result.out
          IN /\ out.raised \in {"none", "CertificateError"}
             /\ out.raised = "CertificateError"
                   <=> (call.now < cert.not_valid_before
                          \/ call.now > cert.not_valid_after)
             /\ out.raised = "none"
                   => /\ out.value.serial_number = cert.serial_number
                      /\ out.value.valid_from = cert.not_valid_before
                      /\ out.value.valid_until = cert.not_valid_after
    /\ result.fn = "startup_event" =>
          LET cert == call.cert_pem
              v == result.out.validation
          IN (/\ InWindow(cert, call.now)
              /\ cert.not_valid_after - call.now
                    < ExpiryWarningDays * TicksPerDay
              /\ \/ call.private_key_pem = "valid"
                 \/ call.private_key_pem = "absent" /\ ~call.production_mode)
             => /\ v.raised = "none"
                /\ v.value.certificate_present
                /\ \E k \in 1..Len(v.value.warnings) :
                      v.value.warnings[k] = "Certificate expires soon"
                /\ result.out.started_up

\* a certificate that is not yet valid has been refused
C16_Witness ==
    /\ result.fn = "validate_certificate"
    /\ call.now < call.cert.not_valid_before
    /\ call.now <= call.cert.not_valid_after
    /\ result.out.raised = "CertificateError"

\* ------------------------------------------- the signing engine (C17-C19)
\* C17: a missing or invalid private key is reported when the engine is
\* constructed, so an engine instance never exists without a usable key
C17_KeyCheckedAtConstruction ==
    crypto_instance.loaded => crypto_instance.private_key

\* the issuance history under the deployments with a certificate
InitCert ==
    /\ invoices = <<>>
    /\ files = [n \in AllIds |-> None]
    /\ invoices_generated = [c \in Issuers |-> 0]
    /\ req = [p \in Procs |-> IdleReq]
    /\ response = NoResponse
    /\ now = 1
    /\ env \in CertEnvironments
    /\ crypto_instance = NoCrypto
    /\ sendCalls = [i \in AllIds |-> 0]
    /\ sendOk = [i \in AllIds |-> 0]
    /\ issueLog = <<>>
    /\ started = 0
    /\ call = NoCall
    /\ result = NoCall

SpecCert == InitCert /\ [][NextChain]_vars

\* C18: the certificate serial stored on an issued invoice is the serial of
\* the certificate the engine has loaded, and the mock serial only when the
\* engine was built without a certificate
C18_SerialOfLoadedCertificate ==
    \A i \in InvoiceIds :
       Issued(i) => /\ crypto_instance.loaded
                    /\ invoices[i].signing_cert_serial
                          = crypto_instance.cert_serial

\* what reaches the verifier in place of the signature
Malformed(signature, how) ==
    CASE how = "intact" -> signature
      [] how = "empty" -> <<>>
      [] how = "truncated" -> SubSeq(signature, 1, 2)
      [] how = "not base64" -> Tail(signature)

\* a document is signed and the signature is verified, perhaps against
\* another document, chain hash or key, or after damage to the signature;
\* the public key 0 is a text that is not a key
SignCalls ==
    [fn : {"sign_invoice"},
     private_key : 1..MaxKeys,
     invoice_hash : {compute_hash(<<h>>) : h \in 1..MaxDocs},
     xml_content : {<<XML_DECL, d>> : d \in 1..MaxDocs},
     salt : 1..MaxSalt,
     verify_hash : {compute_hash(<<h>>) : h \in 1..MaxDocs},
     verify_xml : {<<XML_DECL, d>> : d \in 1..MaxDocs},
     damage : {"intact", "empty", "truncated", "not base64"},
     public_key : 0..MaxKeys]

InitSign ==
    /\ invoices = <<>>
    /\ files = [n \in AllIds |-> None]
    /\ invoices_generated = [c \in Issuers |-> 0]
    /\ req = [p \in Procs |-> IdleReq]
    /\ response = NoResponse
    /\ now = 1
    /\ env \in {e \in Environments : e.private_key = "absent"}
    /\ crypto_instance = NoCrypto
    /\ sendCalls = [i \in AllIds |-> 0]
    /\ sendOk = [i \in AllIds |-> 0]
    /\ issueLog = <<>>
    /\ started = 0
    /\ call \in SignCalls
    /\ result = NoCall

SignInvoice ==
    /\ call.fn = "sign_invoice" /\ result.fn = "none"
    /\ result' = [fn |-> "sign_invoice",
                  signature |-> sign_invoice(call.private_key,
                                   call.invoice_hash, call.xml_content,
                                   call.salt)]
    /\ UNCHANGED <<handlers, call>>

VerifySignature ==
    /\ result.fn = "sign_invoice"
    /\ result' = [fn |-> "verify_signature",
                  signature |-> result.signature,
                  valid |-> verify_signature(
                               call.verify_hash \o <<PIPE>>
                                  \o compute_hash(call.verify_xml),
                               Malformed(result.signature, call.damage),
                               call.public_key)]
    /\ UNCHANGED <<handlers, call>>

NextSign == SignInvoice \/ VerifySignature

SpecSign == InitSign /\ [][NextSign]_vars

UAE_TAX_CODES ==
    [SR |-> [rate |-> <<5>>, taxable |-> TRUE],
     ZR |-> [rate |-> <<0>>, taxable |-> TRUE],
     ES |-> [rate |-> None, taxable |-> FALSE],
     RC |-> [rate |-> <<5>>, taxable |-> TRUE],
     OP |-> [rate |-> None, taxable |-> FALSE]]

\* Decimal.quantize(Decimal('0.01'), rounding=ROUND_HALF_UP) of the amount
\* n / d cents, n >= 0: the amount in whole cents
quantize(n, d) == (2 * n + d) \div (2 * d)

\* calculate_vat; amount is in 1/100 cent, the returned amounts in cents;
\* the division by 1 + rate is exact to 28 digits, which no rounding to
\* cents can tell from the exact quotient
calculate_vat(amount, tax_code, is_inclusive) ==
    LET rate == UAE_TAX_CODES[tax_code].rate
    IN IF rate = None
       THEN [net_amount |-> quantize(amount, 100),
             vat_amount |-> 0,
             total_amount |-> quantize(amount, 100),
             tax_code |-> tax_code, tax_rate |-> None]
       ELSE IF is_inclusive
       THEN \* net = total / (1 + rate), vat = total - net
            [net_amount |-> quantize(amount * 100, (100 + rate[1]) * 100),
             vat_amount |-> quantize(amount * rate[1],
                                     (100 + rate[1]) * 100),
             total_amount |-> quantize(amount, 100),
             tax_code |-> tax_code, tax_rate |-> rate]
       ELSE \* vat = amount * rate, total = net + vat
            [net_amount |-> quantize(amount, 100),
             vat_amount |-> quantize(amount * rate[1], 100 * 100),
             total_amount |-> quantize(amount * (100 + rate[1]), 100 * 100),
             tax_code |-> tax_code, tax_rate |-> rate]

\* calculate_line_item_vat; quantity in hundredths, unit_price in cents
calculate_line_item_vat(quantity, unit_price, tax_code, is_inclusive) ==
    LET line_amount == quantity * unit_price
        vat_calc == calculate_vat(line_amount, tax_code, is_inclusive)
    IN [quantity |-> quantity,
        unit_price |-> unit_price,
        line_net |-> vat_calc.net_amount,
        line_vat |-> vat_calc.vat_amount,
        line_total |-> vat_calc.total_amount,
        tax_code |-> tax_code,
        tax_rate |-> vat_calc.tax_rate]

VatCalls ==
    [fn : {"calculate_line_item_vat"},
     quantity : 0..MaxQuantity,
     unit_price : 0..MaxUnitPrice,
     tax_code : DOMAIN UAE_TAX_CODES,
     is_inclusive : BOOLEAN]

InitVat ==
    /\ invoices = <<>>
    /\ files = [n \in AllIds |-> None]
    /\ invoices_generated = [c \in Issuers |-> 0]
    /\ req = [p \in Procs |-> IdleReq]
    /\ response = NoResponse
    /\ now = 1
    /\ env \in {e \in Environments : e.private_key = "absent"}
    /\ crypto_instance = NoCrypto
    /\ sendCalls = [i \in AllIds |-> 0]
    /\ sendOk = [i \in AllIds |-> 0]
    /\ issueLog = <<>>
    /\ started = 0
    /\ call \in VatCalls
    /\ result = NoCall

CalculateLineItemVat ==
    /\ call.fn = "calculate_line_item_vat" /\ result.fn = "none"
    /\ result' = [fn |-> "calculate_line_item_vat",
                  out |-> calculate_line_item_vat(call.quantity,
                             call.unit_price, call.tax_code,
                             call.is_inclusive)]
    /\ UNCHANGED <<handlers, call>>

NextVat == CalculateLineItemVat

SpecVat == InitVat /\ [][NextVat]_vars

\* C20: for the standard rate, in exclusive and in inclusive mode, the
\* returned amounts satisfy |net + tax - total| <= 0.01 and
\* tax = round_half_up(net * rate, 2)
C20_LineVatIdentities ==
    (result.fn = "calculate_line_item_vat" /\ call.tax_code = "SR") =>
       LET out == result.out
       IN /\ Abs(out.line_net + out.line_vat - out.line_total) <= 1
          /\ out.line_vat = quantize(out.line_net * out.tax_rate[1], 100)

\* aggregate_invoice_vat: the sums of the line amounts, and the same sums
\* for every tax code that occurs
aggregate_invoice_vat(line_items) ==
    LET n == Len(line_items)
        codes == {line_items[k].tax_code : k \in 1..n}
        of_code(tc, field) ==
            SumOver([k \in 1..n |-> IF line_items[k].tax_code = tc
                                    THEN line_items[k][field] ELSE 0], n)
    IN [subtotal |->
           quantize(SumOver([k \in 1..n |-> line_items[k].line_net], n), 1),
        total_vat |->
           quantize(SumOver([k \in 1..n |-> line_items[k].line_vat], n), 1),
        grand_total |->
           quantize(SumOver([k \in 1..n |-> line_items[k].line_total], n), 1),
        vat_by_code |->
           [tc \in codes |-> [net |-> of_code(tc, "line_net"),
                              vat |-> of_code(tc, "line_vat"),
                              total |-> of_code(tc, "line_total")]]]

\* the lines of an invoice to aggregate: whole and fractional quantities,
\* with and without a rate, prices with and without VAT
AggregateLines ==
    [quantity : {45, 53, 100}, unit_price : {10, 21},
     tax_code : {"SR", "ZR", "ES"}, is_inclusive : BOOLEAN]

AggregateCalls ==
    [fn : {"aggregate_invoice_vat"},
     lines : UNION {[1..n -> AggregateLines] : n \in 0..MaxLines}]

InitAggregate ==
    /\ invoices = <<>>
    /\ files = [n \in AllIds |-> None]
    /\ invoices_generated = [c \in Issuers |-> 0]
    /\ req = [p \in Procs |-> IdleReq]
    /\ response = NoResponse
    /\ now = 1
    /\ env \in {e \in Environments : e.private_key = "absent"}
    /\ crypto_instance = NoCrypto
    /\ sendCalls = [i \in AllIds |-> 0]
    /\ sendOk = [i \in AllIds |-> 0]
    /\ issueLog = <<>>
    /\ started = 0
    /\ call \in AggregateCalls
    /\ result = NoCall

AggregateInvoiceVat ==
    /\ call.fn = "aggregate_invoice_vat" /\ result.fn = "none"
    /\ result' =
          [fn |-> "aggregate_invoice_vat",
           out |-> aggregate_invoice_vat(
                      [k \in 1..Len(call.lines) |->
                          calculate_line_item_vat(call.lines[k].quantity,
                             call.lines[k].unit_price,
                             call.lines[k].tax_code,
                             call.lines[k].is_inclusive)])]
    /\ UNCHANGED <<handlers, call>>

NextAggregate == AggregateInvoiceVat

SpecAggregate == InitAggregate /\ [][NextAggregate]_vars

\* C21: the totals of an aggregation satisfy
\* |grand_total - (subtotal + total_vat)| <= 0.01
C21_GrossIsNetPlusTax ==
    result.fn = "aggregate_invoice_vat" =>
       Abs(result.out.grand_total
             - (result.out.subtotal + result.out.total_vat)) <= 1

\* ---------------------------------------------- validation (C22-C24, C30)
\* the text of the digits 1, 2, ..., 9, 0, 1, ... of length n
Digits(n) == [k \in 1..n |-> k % 10]

\* s with a space after its first k characters
WithSpace(s, k) == SubSeq(s, 1, k) \o <<SPACE>> \o SubSeq(s, k + 1, Len(s))

\* supplier TRNs to validate: 15 digits, a digit less or more, a letter in
\* place of a digit, a space between or after the digits, the empty text
TrnTexts ==
    {Digits(n) : n \in (TrnLength - 1)..(TrnLength + 1)}
    \cup {[Digits(TrnLength) EXCEPT ![k] = LETTER_A] : k \in {1, TrnLength}}
    \cup {WithSpace(Digits(n), k) :
             n \in (TrnLength - 1)..TrnLength, k \in {MaxHead, TrnLength - 1}}
    \cup {<<>>}

\* invoice_data dictionaries; no two amounts differ by exactly one cent
ValidateCalls ==
    [fn : {"validate_invoice_data"},
     invoice_data :
        [invoice_number : {Absent, Text(<<1>>)},
         issue_date : {PyNone, Object(1)},
         supplier_trn : {Absent, PyNone} \cup {Text(t) : t \in TrnTexts},
         supplier_name : {Text(<<>>), Text(<<LETTER_A>>)},
         customer_name : {Absent, Text(<<LETTER_A>>)},
         subtotal_amount : {Absent, PyNone, Text(<<LETTER_A>>), Text(<<1>>),
                            Number(0), Number(100)},
         tax_amount : {Absent, Text(<<>>), Number(0), Number(5)},
         total_amount : {Absent, PyNone, Number(100), Number(105)}]]

InitValidate ==
    /\ invoices = <<>>
    /\ files = [n \in AllIds |-> None]
    /\ invoices_generated = [c \in Issuers |-> 0]
    /\ req = [p \in Procs |-> IdleReq]
    /\ response = NoResponse
    /\ now = 1
    /\ env \in {e \in Environments : e.private_key = "absent"}
    /\ crypto_instance = NoCrypto
    /\ sendCalls = [i \in AllIds |-> 0]
    /\ sendOk = [i \in AllIds |-> 0]
    /\ issueLog = <<>>
    /\ started = 0
    /\ call \in ValidateCalls
    /\ result = NoCall

ValidateInvoiceData ==
    /\ call.fn = "validate_invoice_data" /\ result.fn = "none"
    /\ result' = [fn |-> "validate_invoice_data",
                  out |-> validate_invoice_data(call.invoice_data)]
    /\ UNCHANGED <<handlers, call>>

NextValidate == ValidateInvoiceData

SpecValidate == InitValidate /\ [][NextValidate]_vars

\* error is in the list of errors
HasError(errors, error) == \E k \in 1..Len(errors) : errors[k] = error

\* C22: validation never raises, whatever the input, and returns ok = false
\* with one error for every violated rule: a required field that is absent,
\* None or empty, a supplier TRN that is not of 15 digits, a total that is
\* not subtotal plus tax; ok is true exactly when the list is empty
C22_ValidationFailsClosed ==
    result.fn = "validate_invoice_data" =>
       /\ result.out.raised = "none"
       /\ LET d == call.invoice_data
              errors == result.out.value.errors
              cents(f) == IF d[f].kind = "absent" THEN 0
                          ELSE float(d[f]).value
          IN /\ result.out.value.is_valid <=> errors = <<>>
             /\ \A k \in 1..Len(required_fields) :
                   (d[required_fields[k]].kind \in {"absent", "None"}
                      \/ d[required_fields[k]] = Text(<<>>))
                   => HasError(errors,
                         <<"Missing required field", required_fields[k]>>)
             /\ (d.supplier_trn.kind = "str" /\ d.supplier_trn.v # <<>>
                   /\ ~(IsDigits(d.supplier_trn.v)
                          /\ Len(d.supplier_trn.v) = TrnLength))
                   => HasError(errors, <<"Supplier TRN must be 15 digits">>)
             /\ Abs(cents("total_amount")
                      - (cents("subtotal_amount") + cents("tax_amount"))) > 1
                   => HasError(errors, <<"Total amount mismatch">>)

\* C23: validation accepts a supplier TRN if and only if it consists of
\* exactly 15 digits; any other length, a letter or a space is rejected
C23_TrnIsFifteenDigits ==
    (/\ result.fn = "validate_invoice_data"
     /\ result.out.raised = "none"
     /\ call.invoice_data.supplier_trn.kind = "str") =>
       LET trn == call.invoice_data.supplier_trn.v
           errors == result.out.value.errors
           accepted ==
              /\ ~HasError(errors, <<"Supplier TRN must be 15 digits">>)
              /\ ~HasError(errors, <<"Missing required field", "supplier_trn">>)
       IN accepted <=> (IsDigits(trn) /\ Len(trn) = TrnLength)

\* the issuance history of one issuer that creates tax invoices and credit
\* notes
NextCredit ==
    \/ Tick
    \/ /\ Within(MaxRequests) /\ CanCreate(MaxInvoices)
       /\ \E p \in Procs, payload \in CreditPayloads :
             CreateRead(p, 1, payload)
    \/ \E p \in Procs : CreateInsert(p)
    \/ /\ Within(MaxRequests)
       /\ \E p \in Procs, i \in InvoiceIds : IssueBegin(p, i)
    \/ \E p \in Procs : IssueFinish(p)

SpecCredit == Init /\ [][NextCredit]_vars

\* C24: a credit note without a reference to a preceding invoice fails the
\* validation of issuance, so it never reaches the status ISSUED and gets no
\* hash and no signature
C24_CreditNoteNeedsReference ==
    \A i \in InvoiceIds :
       (invoices[i].invoice_type = "381"
          /\ invoices[i].preceding_invoice_id = None)
       => /\ invoices[i].status # "ISSUED"
          /\ invoices[i].xml_hash = None
          /\ invoices[i].signature_b64 = None

\* ------------------------------------------- the serializer (C25, C26)
\* the date of the clock value t
Today(t) == t \div TicksPerDay

\* invoice_data of an invoice of 100.00 plus 5.00 VAT: with and without issue
\* date, customer TRN and preceding invoice
SerializeHeaders ==
    [invoice_number : {1}, issue_date : 0..MaxClock,
     supplier_trn : {CompanyTrn(1)},
     supplier_peppol_id : {SubSeq(CompanyTrn(1), 1, 10)},
     customer_trn : {None, CustomerTrn},
     customer_peppol_id : {None},
     subtotal_amount : {10000}, tax_amount : {500}, total_amount : {10500},
     amount_due : {10500},
     preceding_invoice_id : {None, <<1>>}]

\* line n of an invoice
SerializeLine(n) ==
    [line_number |-> n, quantity |-> 1, unit_price |-> 10000 \div n,
     line_extension_amount |-> 10000 \div n, tax_percent |-> 5,
     tax_amount |-> 500 \div n]

\* the lines 1..n of an invoice in every order
SerializeLines ==
    UNION {{[k \in 1..n |-> SerializeLine(order[k])] :
              order \in {f \in [1..n -> 1..n] : \A a, b \in 1..n :
                                                  f[a] = f[b] => a = b}} :
           n \in 1..MaxLines}

\* an invoice is serialized at t1, another one at t2 on the same serializer,
\* and the first one again at t3
SerializeCalls ==
    {c \in [fn : {"generate_invoice_xml"},
            invoice_data : SerializeHeaders,
            line_items : SerializeLines,
            other : SerializeHeaders,
            t1 : 1..MaxNow, t2 : 1..MaxNow, t3 : 1..MaxNow] :
        c.t1 <= c.t2 /\ c.t2 <= c.t3}

InitSerialize ==
    /\ invoices = <<>>
    /\ files = [n \in AllIds |-> None]
    /\ invoices_generated = [c \in Issuers |-> 0]
    /\ req = [p \in Procs |-> IdleReq]
    /\ response = NoResponse
    /\ now = 1
    /\ env \in {e \in Environments : e.private_key = "absent"}
    /\ crypto_instance = NoCrypto
    /\ sendCalls = [i \in AllIds |-> 0]
    /\ sendOk = [i \in AllIds |-> 0]
    /\ issueLog = <<>>
    /\ started = 0
    /\ call \in SerializeCalls
    /\ result = NoCall

\* generate_invoice_xml: self.root is built anew and serialized
GenerateInvoiceXml ==
    /\ call.fn = "generate_invoice_xml" /\ result.fn = "none"
    /\ LET xml == XmlContent(call.invoice_data, call.line_items,
                             Today(call.t1))
       IN result' = [fn |-> "generate_invoice_xml", calls |-> 1,
                     root |-> xml, first |-> xml, second |-> <<>>]
    /\ UNCHANGED <<handlers, call>>

GenerateOther ==
    /\ result.fn = "generate_invoice_xml" /\ result.calls = 1
    /\ result' = [result EXCEPT
                     !.calls = 2,
                     !.root = XmlContent(call.other, call.line_items,
                                         Today(call.t2))]
    /\ UNCHANGED <<handlers, call>>

GenerateAgain ==
    /\ result.fn = "generate_invoice_xml" /\ result.calls \in {1, 2}
    /\ LET xml == XmlContent(call.invoice_data, call.line_items,
                             Today(call.t3))
       IN result' = [result EXCEPT !.calls = 3, !.root = xml,
                                   !.second = xml]
    /\ UNCHANGED <<handlers, call>>

NextSerialize == GenerateInvoiceXml \/ GenerateOther \/ GenerateAgain

SpecSerialize == InitSerialize /\ [][NextSerialize]_vars

\* C25: two serializations of the same header and lines, at different times
\* and with other calls between them, give the same document and so the
\* same content hash
C25_SerializeDeterministic ==
    (result.fn = "generate_invoice_xml" /\ result.calls = 3) =>
       /\ result.second = result.first
       /\ compute_hash(result.second) = compute_hash(result.first)

\* the positions in a document at which an element tag stands
TagPositions(xml, tag) == {k \in 1..Len(xml) : xml[k] = tag}

\* C26: in the document the lines stand after the monetary totals and in
\* ascending order of their line numbers, in whatever order they were given
C26_LinesInSequenceOrder ==
    result.fn = "generate_invoice_xml" =>
       LET xml == result.first
           lines == TagPositions(xml, TAG_LINE)
       IN /\ \A t \in TagPositions(xml, TAG_PAYABLE), l \in lines : t < l
          /\ \A a, b \in lines : a < b => xml[a + 1] < xml[b + 1]

\* --------------------------------------------- numbers and files (C27, C28)
\* C27: no two invoices of one issuer have the same invoice number, under
\* any interleaving of creations
C27_NumbersUniquePerIssuer ==
    \A i, j \in InvoiceIds :
       (i # j /\ invoices[i].company_id = invoices[j].company_id)
       => invoices[i].invoice_number # invoices[j].invoice_number

\* C28: the stored document of an issued invoice, which transmit sends,
\* hashes to the content hash stored at issuance; no other issuance
\* overwrites it
C28_StoredDocumentMatchesHash ==
    \A i \in InvoiceIds :
       Issued(i) =>
          compute_hash(files[invoices[i].xml_file_path]) = invoices[i].xml_hash

\* ------------------------------------------------------ cancellation (C29)
\* C29: a cancelled invoice keeps its status and is not transmitted, whatever
\* is requested afterwards
C29_CancelledTerminal ==
    [][\A i \in InvoiceIds :
          invoices[i].status = "CANCELLED"
          => /\ invoices'[i].status = "CANCELLED"
             /\ sendCalls'[i] = sendCalls[i]]_vars

\* ------------------------------------------- validation at issuance (C30)
\* C30: an invoice that is valid but for a tax total of 0, with total = net,
\* passes the validation of issuance: its issue is not refused as invalid
C30_ZeroTaxIssuable ==
    (response.op = "issue" /\ response.detail = "XML generation failed") =>
       LET inv == invoices[response.inv]
       IN ~(/\ inv.tax_amount = 0
            /\ inv.subtotal_amount > 0
            /\ inv.total_amount = inv.subtotal_amount
            /\ IsDigits(inv.supplier_trn)
            /\ Len(inv.supplier_trn) = TrnLength
            /\ inv.issue_date # 0)

====
